---- MODULE Spec2Model ----
(***************************************************************************)
(* A model of flash-tools: the dat reader (src/flash.py, class dat), the   *)
(* 1d profile reader and writer (class model, write_flash_profile) and     *)
(* calculate_shock (src/flash.py and src/flashy/flash.py).                 *)
(*                                                                         *)
(* Text is modelled character by character: a string is a sequence of      *)
(* one-character strings, a file is a sequence of lines without their      *)
(* line terminator.  A number is a natural; str() and int() are the        *)
(* decimal conversions NatToStr and StrToNat.                              *)
(***************************************************************************)
EXTENDS Integers, Sequences, FiniteSets, TLC

(***************************************************************************)
(* Bounds of the model.                                                    *)
(***************************************************************************)
\* longest file, in lines, of the lifecycle specification
MaxShort == 3
\* read_file calls on one object in the lifecycle specification
MaxReads == 2
\* longest file, in lines, of the segmentation specification
MaxLines == 7
\* most fields of a generated header line
MaxFields == 4
\* longest input series of calculate_shock
MaxSeries == 5
\* most zones and most variables of a written profile
MaxZones == 2
MaxVars == 2

(***************************************************************************)
(* Python text primitives.                                                 *)
(***************************************************************************)
\* body with x bound to the value of e: the value is computed once
Bind(e, body(_)) == CHOOSE y \in {body(x) : x \in {e}} : TRUE

Min(a, b) == IF a < b THEN a ELSE b
Max(a, b) == IF a > b THEN a ELSE b

Digits == <<"0", "1", "2", "3", "4", "5", "6", "7", "8", "9">>

IsDigit(c) == \E i \in 1..10 : Digits[i] = c

IsSpace(c) == c = " " \/ c = "\n"

\* s[a:b] for 0 <= a, 0 <= b (a slice is clamped to the string)
Slice(s, a, b) == SubSeq(s, Min(a, Len(s)) + 1, Min(b, Len(s)))

\* s[a:]
SliceFrom(s, a) == SubSeq(s, Min(a, Len(s)) + 1, Len(s))

RECURSIVE LStrip(_)
LStrip(s) == IF s # <<>> /\ IsSpace(Head(s)) THEN LStrip(Tail(s)) ELSE s

\* the end of s[1..k] without its trailing whitespace
RECURSIVE RStripEnd(_, _)
RStripEnd(s, k) == IF k > 0 /\ IsSpace(s[k]) THEN RStripEnd(s, k - 1) ELSE k

\* str.strip()
Strip(s) == Bind(LStrip(s), LAMBDA t : SubSeq(t, 1, RStripEnd(t, Len(t))))

RECURSIVE DropDigits(_)
DropDigits(s) == IF s # <<>> /\ IsDigit(Head(s)) THEN DropDigits(Tail(s)) ELSE s

\* re.sub(r'^\d+\s*', '', s): a leading run of one or more digits and the
\* whitespace after it are removed; a string that does not start with a digit
\* is left as it is
ReSubIndex(s) ==
    IF s # <<>> /\ IsDigit(Head(s)) THEN LStrip(DropDigits(s)) ELSE s

\* str.startswith('#')
StartsWithHash(s) == s # <<>> /\ Head(s) = "#"

\* the first maximal run of non-whitespace characters of s (s not starting
\* with whitespace)
RECURSIVE FirstToken(_)
FirstToken(s) ==
    IF s = <<>> \/ IsSpace(Head(s)) THEN <<>>
    ELSE <<Head(s)>> \o FirstToken(Tail(s))

\* str.split(): the maximal runs of non-whitespace characters
RECURSIVE Split(_)
Split(s) ==
    Bind(LStrip(s), LAMBDA t :
        IF t = <<>> THEN <<>>
        ELSE Bind(FirstToken(t), LAMBDA tok :
                 <<tok>> \o Split(SliceFrom(t, Len(tok)))))

\* str.split('#')[0]: the text before the first comment marker
RECURSIVE BeforeHash(_)
BeforeHash(s) ==
    IF s = <<>> \/ Head(s) = "#" THEN <<>>
    ELSE <<Head(s)>> \o BeforeHash(Tail(s))

DigitValue(c) == (CHOOSE i \in 1..10 : Digits[i] = c) - 1

AllDigits(s) == s # <<>> /\ \A i \in 1..Len(s) : IsDigit(s[i])

\* int(s) / the integer converter of genfromtxt, for a string of digits
RECURSIVE StrToNatUpTo(_, _)
StrToNatUpTo(s, k) ==
    IF k = 0 THEN 0 ELSE 10 * StrToNatUpTo(s, k - 1) + DigitValue(s[k])

StrToNat(s) == StrToNatUpTo(s, Len(s))

\* str(n) for a natural n
RECURSIVE NatToStr(_)
NatToStr(n) ==
    IF n < 10 THEN <<Digits[n + 1]>>
    ELSE NatToStr(n \div 10) \o <<Digits[(n % 10) + 1]>>

\* ' '.join(parts)
RECURSIVE JoinSpace(_)
JoinSpace(parts) ==
    IF parts = <<>> THEN <<>>
    ELSE IF Len(parts) = 1 THEN parts[1]
    ELSE parts[1] \o <<" ">> \o JoinSpace(Tail(parts))

(***************************************************************************)
(* dat.read_file, header parsing (src/flash.py lines 121-133).             *)
(***************************************************************************)
HdrOffset == 26
HdrWidth == 25

\* line 127: the first field is l[1:width]; the digits are removed before the
\* text is stripped
FirstColumn(l) == Strip(ReSubIndex(Slice(l, 1, HdrWidth)))

\* line 130: a field of the loop is stripped, loses its digits, is stripped
FieldColumn(l, offset) ==
    Strip(ReSubIndex(Strip(Slice(l, offset, offset + HdrWidth))))

\* line 133: the last field is the remainder of the line
LastColumn(l, offset) == Strip(ReSubIndex(Strip(SliceFrom(l, offset))))

\* the next offset if the fields followed each other without a separator
NextOffsetPacked(offset) == offset + HdrWidth

\* line 131: offset += width+1
NextOffset(offset) == offset + HdrWidth + 1

\* lines 129-133: the while loop and the append after it
RECURSIVE HeaderLoop(_, _, _)
HeaderLoop(l, offset, columns) ==
    IF offset + HdrWidth < Len(l)
    THEN HeaderLoop(l, NextOffset(offset), Append(columns, FieldColumn(l, offset)))
    ELSE Append(columns, LastColumn(l, offset))

\* lines 122-133: the Column Name list of a first line
ParseHeader(line) ==
    Bind(Strip(line), LAMBDA l : HeaderLoop(l, HdrOffset, <<FirstColumn(l)>>))

(***************************************************************************)
(* numpy.genfromtxt as dat.read_file and model.read_file call it: names a  *)
(* list, dtype=None, encoding='ascii', comments='#', whitespace delimiter. *)
(***************************************************************************)
\* NameValidator.deletechars
DeleteChars ==
    {"~", "!", "@", "#", "$", "%", "^", "&", "*", "(", ")", "-", "=", "+", "|",
     "]", "}", "[", "{", "'", ";", ":", " ", "/", "?", ".", ">", ",", "<"}

\* item.strip(), spaces replaced by '_', the characters of deletechars removed
CleanName(name) ==
    LET t == Strip(name)
        u == [i \in 1..Len(t) |-> IF t[i] = " " THEN "_" ELSE t[i]]
    IN SelectSeq(u, LAMBDA c : c \notin DeleteChars)

InSeq(x, s) == \E i \in 1..Len(s) : s[i] = x

Count(x, s) == Cardinality({i \in 1..Len(s) : s[i] = x})

\* the default name 'f%i' of an empty name: the first index from nbempty on
\* whose name is not one of the given names
RECURSIVE FreeIndex(_, _)
FreeIndex(names, nbempty) ==
    IF InSeq(<<"f">> \o NatToStr(nbempty), names)
    THEN FreeIndex(names, nbempty + 1) ELSE nbempty

\* NameValidator.validate: items are the cleaned names seen so far, out the
\* validated names (a repeated name gets the suffix _<count>)
RECURSIVE ValidateLoop(_, _, _, _, _)
ValidateLoop(names, i, items0, out0, nbempty0) ==
    IF i > Len(names) THEN out0
    ELSE Bind(<<items0, out0, nbempty0, CleanName(names[i])>>, LAMBDA a :
         Bind(FreeIndex(names, a[3]), LAMBDA k :
         Bind(IF a[4] = <<>> THEN <<"f">> \o NatToStr(k) ELSE a[4], LAMBDA item :
         Bind(Count(item, a[1]), LAMBDA cnt :
             ValidateLoop(names, i + 1, Append(a[1], item),
                 Append(a[2], IF cnt > 0 THEN item \o <<"_">> \o NatToStr(cnt)
                              ELSE item),
                 IF a[4] = <<>> THEN k + 1 ELSE a[3])))))

ValidateNames(names) == ValidateLoop(names, 1, <<>>, <<>>, 0)

\* max_rows=None
NoMaxRows == -1

\* split_line: the comment is removed, the rest split on whitespace
SplitLine(line) == Split(BeforeHash(line))

\* the row loop: lines without a value (empty, or a comment) are skipped, a row
\* with another number of values than the first row is invalid, and the loop
\* stops after max_rows valid rows.  acc = [rows, invalid]
RECURSIVE CollectRows(_, _, _, _)
CollectRows(lines, i, max_rows, acc0) ==
    Bind(acc0, LAMBDA acc :
        IF i > Len(lines) \/ Len(acc.rows) = max_rows THEN acc
        ELSE Bind(SplitLine(lines[i]), LAMBDA values :
            IF values = <<>> THEN CollectRows(lines, i + 1, max_rows, acc)
            ELSE IF acc.rows # <<>> /\ Len(values) # Len(acc.rows[1])
            THEN CollectRows(lines, i + 1, max_rows, [acc EXCEPT !.invalid = TRUE])
            ELSE CollectRows(lines, i + 1, max_rows,
                             [acc EXCEPT !.rows = Append(@, values)])))

\* dtype=None: a column of integer texts is an integer column, any other
\* column keeps its texts
ConvertRows(rows0) ==
    Bind(rows0, LAMBDA rows :
        [r \in 1..Len(rows) |->
           [c \in 1..Len(rows[r]) |->
              IF \A q \in 1..Len(rows) : AllDigits(rows[q][c])
              THEN StrToNat(rows[r][c]) ELSE rows[r][c]]])

\* The array of an input without a row has the empty dtype: no field at all.
EmptyRun == [names |-> <<>>, rows |-> <<>>]

\* genfromtxt(fname, names=names, dtype=None, skip_header=skip_header,
\* max_rows=max_rows) on the lines of fname: [exc, data]; data is a
\* structured array [names, rows], each row one value per name
GenFromTxt(lines, names, skip_header, max_rows) ==
    Bind(CollectRows(lines, skip_header + 1, max_rows,
                     [rows |-> <<>>, invalid |-> FALSE]), LAMBDA got :
    Bind(ValidateNames(names), LAMBDA vnames :
       IF got.invalid THEN [exc |-> "ValueError", data |-> EmptyRun]
       ELSE IF got.rows = <<>> THEN [exc |-> "none", data |-> EmptyRun]
       ELSE IF Len(got.rows[1]) > Len(vnames)
       THEN [exc |-> "ValueError", data |-> EmptyRun]
       ELSE [exc |-> "none",
             data |-> [names |-> SubSeq(vnames, 1, Len(got.rows[1])),
                       rows |-> ConvertRows(got.rows)]]))

\* numpy field access array[name]: [exc, val], val the column's values
Field(run, name) ==
    IF ~InSeq(name, run.names) THEN [exc |-> "ValueError", val |-> <<>>]
    ELSE LET p == CHOOSE i \in 1..Len(run.names) : run.names[i] = name
         IN [exc |-> "none",
             val |-> [r \in 1..Len(run.rows) |-> run.rows[r][p]]]

(***************************************************************************)
(* dat.read_file, run segmentation (src/flash.py lines 135-171).           *)
(***************************************************************************)
\* line 139: line.strip().startswith('#')
IsHeaderLine(line) == StartsWithHash(Strip(line))

\* a scan that parses a block at every header line
HeaderAlwaysParsed(next_run) == FALSE

\* line 143: if (next_run == 0)
HeaderNoData(next_run) == next_run = 0

\* a skip that moves past the data lines only
AdvanceSkipNoHeader(skip, next_run) == skip + next_run

\* line 158: skip += next_run + 1
AdvanceSkip(skip, next_run) == skip + next_run + 1

\* an append that drops a Run without rows
AppendRunNonEmpty(runs, data) == IF data.rows = <<>> THEN runs ELSE Append(runs, data)

\* lines 156, 169: self.__runs.append(data)
AppendRun(runs, data) == Append(runs, data)

\* lines 139-159: the body of the for loop on one line.
\* st = [skip, next_run, runs, exc]; an exception ends the scan
ScanStep(st0, lines, columns, line) ==
    Bind(st0, LAMBDA st :
        IF st.exc # "none" THEN st
        ELSE IF ~IsHeaderLine(line) THEN [st EXCEPT !.next_run = @ + 1]
        ELSE IF HeaderNoData(st.next_run) THEN [st EXCEPT !.skip = @ + 1]
        ELSE Bind(GenFromTxt(lines, columns, st.skip, st.next_run), LAMBDA g :
             IF g.exc # "none" THEN [st EXCEPT !.exc = g.exc]
             ELSE [skip |-> AdvanceSkip(st.skip, st.next_run), next_run |-> 0,
                   runs |-> AppendRun(st.runs, g.data), exc |-> "none"]))

\* lines 135-159: the state of the scan after the first n lines, from the
\* runs the object already holds
RECURSIVE Scan(_, _, _, _)
Scan(lines, columns, runs, n) ==
    IF n = 0 THEN [skip |-> 0, next_run |-> 0, runs |-> runs, exc |-> "none"]
    ELSE ScanStep(Scan(lines, columns, runs, n - 1), lines, columns, lines[n])

\* lines 161-169: the last run, from skip to EOF
ParseLastRun(st0, lines, columns) ==
    Bind(st0, LAMBDA st :
        IF st.exc # "none" THEN st
        ELSE Bind(GenFromTxt(lines, columns, st.skip, NoMaxRows), LAMBDA g :
             IF g.exc # "none" THEN [st EXCEPT !.exc = g.exc]
             ELSE [st EXCEPT !.runs = AppendRun(@, g.data)]))

\* lines 121-171 on an existing file: [columns, runs, loaded, exc] of the
\* object afterwards.  Nothing resets runs or loaded.
ReadDat(columns, runs, loaded, lines) ==
    Bind(ParseHeader(IF lines = <<>> THEN <<>> ELSE lines[1]), LAMBDA cols :
    Bind(ParseLastRun(Scan(lines, cols, runs, Len(lines)), lines, cols), LAMBDA st :
       [columns |-> cols, runs |-> st.runs,
        loaded |-> IF st.exc = "none" THEN TRUE ELSE loaded, exc |-> st.exc]))

(***************************************************************************)
(* dat queries (src/flash.py lines 28-108).  An outcome is [exc, val]:     *)
(* exc the exception raised ("none" when the call returns), val the value  *)
(* returned.                                                               *)
(***************************************************************************)
NoneVal == "None"

Raise(e) == [exc |-> e, val |-> NoneVal]

Return(v) == [exc |-> "none", val |-> v]

\* sequence[i] of Python, i possibly negative: [exc, val]
PyItem(seq, i) ==
    IF i >= 0 /\ i < Len(seq) THEN Return(seq[i + 1])
    ELSE IF i < 0 /\ -i <= Len(seq) THEN Return(seq[Len(seq) + i + 1])
    ELSE Raise("IndexError")

\* np.atleast_1d(run[name]) for every run, concatenated in the order of runs
\* (lines 97, 99); the first failing field access raises
RECURSIVE ConcatColumn(_, _, _)
ConcatColumn(runs, nameOf, k) ==
    IF k > Len(runs) THEN Return(<<>>)
    ELSE Bind(Field(runs[k], nameOf), LAMBDA f :
             IF f.exc # "none" THEN Raise(f.exc)
             ELSE Bind(ConcatColumn(runs, nameOf, k + 1), LAMBDA rest :
                      IF rest.exc # "none" THEN rest
                      ELSE Return(f.val \o rest.val)))

\* lines 28-30: dat.check_loaded
DatCheckLoaded(loaded) == IF loaded THEN "none" ELSE "RuntimeError"

\* lines 94-108: dat.get.  An index is [t |-> "int", i], [t |-> "str", s],
\* [t |-> "tuple", items] or a value of another type, [t |-> "float"].
\* A tuple of two items whose column is neither int nor str falls out of the
\* if chain: the call returns None.
DatGetOutcome(runs, loaded, index) ==
    IF DatCheckLoaded(loaded) # "none" THEN Raise(DatCheckLoaded(loaded))
    ELSE IF index.t = "int" THEN
        LET r0 == PyItem(runs, 0)
            nm == IF r0.exc = "none" THEN PyItem(r0.val.names, index.i) ELSE r0
        IN IF nm.exc # "none" THEN nm ELSE ConcatColumn(runs, nm.val, 1)
    ELSE IF index.t = "str" THEN ConcatColumn(runs, index.s, 1)
    ELSE IF index.t = "tuple" /\ Len(index.items) = 2 THEN
        LET run == index.items[1]
            column == index.items[2]
            r == PyItem(runs, run.i)
        IN IF column.t = "int" THEN
               LET nm == IF r.exc = "none" THEN PyItem(r.val.names, column.i) ELSE r
               IN IF nm.exc # "none" THEN nm ELSE Field(r.val, nm.val)
           ELSE IF column.t = "str" THEN
               IF r.exc # "none" THEN r ELSE Field(r.val, column.s)
           ELSE Return(NoneVal)
    ELSE Raise("IndexError")

\* lines 63-64: dat.get_run
DatGetRunOutcome(runs, loaded, run) ==
    IF DatCheckLoaded(loaded) # "none" THEN Raise(DatCheckLoaded(loaded))
    ELSE PyItem(runs, run)

\* lines 37-39: dat.column_names calls check_loaded(), a name that is bound
\* neither in the method nor in the module: the call raises NameError
DatColumnNamesOutcome(runs, loaded) == Raise("NameError")

(***************************************************************************)
(* The files a dat object is given.  A file name is the file's shape, one  *)
(* symbol per line: H and G are header lines (columns a b, and a c), D a   *)
(* data line of two values, X a data line of three values, B an empty      *)
(* line.  The line i of a file holds the values i and i + 10.              *)
(***************************************************************************)
Pad(s, n) == s \o [i \in 1..(n - Len(s)) |-> " "]

\* a header as FLASH writes it: the fields 25 wide, one separator between
HeaderAB == <<" ", "#">> \o Pad(<<"1", " ", "a">>, HdrWidth - 1) \o <<" ">>
            \o <<"2", " ", "b">>
HeaderAC == <<" ", "#">> \o Pad(<<"1", " ", "a">>, HdrWidth - 1) \o <<" ">>
            \o <<"2", " ", "c">>

RowValues(i) == <<i, i + 10>>

RenderLine(sym, i) ==
    CASE sym = "H" -> HeaderAB
      [] sym = "G" -> HeaderAC
      [] sym = "D" -> <<" ">> \o NatToStr(i) \o <<" ", " ">> \o NatToStr(i + 10)
      [] sym = "X" -> <<" ">> \o NatToStr(i) \o <<" ">> \o NatToStr(i + 10)
                      \o <<" ">> \o NatToStr(i + 20)
      [] OTHER -> <<>>

NoFile == <<"missing">>

FileExists(fn) == fn # NoFile

SeqsUpTo(S, n) == UNION {[1..k -> S] : k \in 0..n}

ShortFiles == SeqsUpTo({"H", "G", "D", "X"}, MaxShort) \cup {NoFile}

ScanFiles == SeqsUpTo({"H", "D", "B"}, MaxLines)

IntIndex(i) == [t |-> "int", i |-> i]

StrIndex(s) == [t |-> "str", s |-> s]

FloatIndex == [t |-> "float"]

ColumnIndexes ==
    {IntIndex(i) : i \in -1..2} \cup {StrIndex(<<c>>) : c \in {"a", "b", "c"}}

Indexes ==
    ColumnIndexes
    \cup {[t |-> "tuple", items |-> <<IntIndex(r), c>>] :
            r \in 0..1, c \in {IntIndex(0), StrIndex(<<"b">>), FloatIndex}}
    \cup {[t |-> "tuple", items |-> <<IntIndex(0), IntIndex(0), IntIndex(0)>>],
          FloatIndex}

(***************************************************************************)
(* write_flash_profile (src/flash.py lines 283-309) and model.read_file    *)
(* (lines 245-280).                                                        *)
(***************************************************************************)
\* print(*parts, file=f): the texts joined by a space, and a newline
PrintLine(parts) == JoinSpace(parts) \o <<"\n">>

\* the lines of a text, without their terminators
RECURSIVE LinesFrom(_, _, _)
LinesFrom(text, start, i) ==
    IF i > Len(text)
    THEN IF start > Len(text) THEN <<>> ELSE <<SubSeq(text, start, Len(text))>>
    ELSE IF text[i] = "\n"
    THEN <<SubSeq(text, start, i - 1)>> \o LinesFrom(text, i + 1, i + 1)
    ELSE LinesFrom(text, start, i + 1)

TextLines(text) == LinesFrom(text, 1, 1)

NumVarsText ==
    <<"n", "u", "m", "b", "e", "r", " ", "o", "f", " ",
      "v", "a", "r", "i", "a", "b", "l", "e", "s", " ", "=">>

RECURSIVE Flatten(_)
Flatten(texts) == IF texts = <<>> THEN <<>> ELSE Head(texts) \o Flatten(Tail(texts))

\* lines 308-309: the rows that are printed before data[var][i] raises
\* IndexError for a sequence shorter than r (all of them when none is)
RowsWritten(r, data) ==
    LET bad == {i \in 1..Len(r) : \E v \in 1..Len(data) : Len(data[v].vals) < i}
    IN IF bad = {} THEN Len(r) ELSE (CHOOSE i \in bad : \A j \in bad : i <= j) - 1

\* lines 301-309: [exc, text] of write_flash_profile(r, data, comment); data
\* is the mapping in its order, a sequence of [name, vals]
WriteProfile(r, data, comment) ==
    [exc |-> IF RowsWritten(r, data) < Len(r) THEN "IndexError" ELSE "none",
     text |->
        PrintLine(<< <<"#">>, comment >>)
        \o PrintLine(<<NumVarsText, NatToStr(Len(data))>>)
        \o Flatten([v \in 1..Len(data) |-> PrintLine(<<data[v].name>>)])
        \o Flatten([i \in 1..RowsWritten(r, data) |->
              PrintLine(<<NatToStr(r[i])>>
                        \o [v \in 1..Len(data) |-> NatToStr(data[v].vals[i])])])]

\* f.readline(): the next line, '' at the end of the file
LineAt(lines, k) == IF k <= Len(lines) THEN lines[k] ELSE <<>>

\* lines 268-269: the first token of each of the num_vars lines after line
\* at; [exc, val]: a line without a token raises IndexError
NamesAfter(lines, at, num_vars) ==
    IF \E i \in 1..num_vars : Split(LineAt(lines, at + i)) = <<>>
    THEN Raise("IndexError")
    ELSE Return([i \in 1..num_vars |-> Split(LineAt(lines, at + i))[1]])

\* lines 255-280 on an existing file: [comment, var_names, data, loaded, exc]
\* of the object afterwards.  c is 1 when the first line is a comment.
ReadModel(comment, var_names, data, loaded, lines) ==
    Bind(IF StartsWithHash(LineAt(lines, 1)) THEN 1 ELSE 0, LAMBDA c :
    Bind(IF c = 1 THEN LineAt(lines, 1) \o <<"\n">> ELSE comment, LAMBDA cm :
    Bind(Split(LineAt(lines, c + 1)), LAMBDA toks :
        IF toks = <<>>
        THEN [comment |-> cm, var_names |-> var_names, data |-> data,
              loaded |-> loaded, exc |-> "IndexError"]
        ELSE IF ~AllDigits(toks[Len(toks)])
        THEN [comment |-> cm, var_names |-> var_names, data |-> data,
              loaded |-> loaded, exc |-> "ValueError"]
        ELSE
    Bind(StrToNat(toks[Len(toks)]), LAMBDA num_vars :
    Bind(NamesAfter(lines, c + 1, num_vars), LAMBDA nm :
        IF nm.exc # "none"
        THEN [comment |-> cm, var_names |-> << <<"r">> >>, data |-> data,
              loaded |-> loaded, exc |-> nm.exc]
        ELSE
    Bind(GenFromTxt(lines, << <<"r">> >> \o nm.val, c + num_vars + 1, NoMaxRows),
         LAMBDA g :
        IF g.exc # "none"
        THEN [comment |-> cm, var_names |-> << <<"r">> >> \o nm.val, data |-> data,
              loaded |-> loaded, exc |-> g.exc]
        ELSE [comment |-> cm, var_names |-> << <<"r">> >> \o nm.val,
              data |-> g.data, loaded |-> TRUE, exc |-> "none"]))))))

\* lines 196-242: model.check_loaded is a method, and var_names and get call
\* check_loaded(), a name bound neither in the method nor in the module: both
\* raise NameError whatever the object holds
ModelVarNamesOutcome(data, loaded) == Raise("NameError")

ModelGetOutcome(data, loaded, index) == Raise("NameError")

(***************************************************************************)
(* calculate_shock: src/flashy/flash.py lines 178-211, and src/flash.py    *)
(* lines 483-516.                                                          *)
(***************************************************************************)
NumSamples == 1000

\* the length of the maximal run of equal values of s that starts at p
RECURSIVE GroupLen(_, _)
GroupLen(s, p) ==
    IF p < Len(s) /\ s[p + 1] = s[p] THEN 1 + GroupLen(s, p + 1) ELSE 1

\* flashy line 203: time[offset - 1], the time at the last index of a group
GroupTime(time, offset, len) == PyItem(time, offset - 1)

\* flashy lines 201-204: the groupby loop from offset on; [exc, ts, rs]
RECURSIVE ShockGroups(_, _, _, _, _)
ShockGroups(time, shock_radius, offset, ts, rs) ==
    IF offset >= Len(shock_radius) THEN [exc |-> "none", ts |-> ts, rs |-> rs]
    ELSE Bind(GroupLen(shock_radius, offset + 1), LAMBDA len :
         Bind(GroupTime(time, offset + len, len), LAMBDA t :
            IF t.exc # "none" THEN [exc |-> t.exc, ts |-> ts, rs |-> rs]
            ELSE ShockGroups(time, shock_radius, offset + len,
                             Append(ts, t.val), Append(rs, shock_radius[offset + 1]))))

\* flashy lines 196-211.  The value returned is described by the lengths of
\* the three arrays and the ends of the time grid; smooth_t and smooth_r are
\* the points handed to np.interp
CalculateShockFlashy(time, shock_radius) ==
    Bind(ShockGroups(time, shock_radius, 0, <<0>>, <<0>>), LAMBDA g :
        IF g.exc # "none" THEN Raise(g.exc)
        ELSE IF time = <<>> THEN Raise("IndexError")
        ELSE Return([smooth_t |-> g.ts, smooth_r |-> g.rs,
                     t_first |-> time[1], t_last |-> time[Len(time)],
                     n_times |-> NumSamples, n_rad |-> NumSamples,
                     n_vel |-> NumSamples]))

\* src/flash.py line 506: groupby(max_shock_rads) names a variable that is
\* bound nowhere; the call raises NameError before anything is computed
CalculateShockFlash(time, shock_rad) == Raise("NameError")

(***************************************************************************)
(* Header lines: a file of one header line is named by its layout and the  *)
(* contents of its fields.                                                 *)
(***************************************************************************)
LongName == [i \in 1..25 |-> "x"]

\* the text and the bare name of a field
FieldText(code) ==
    CASE code = "a" -> <<"a">>
      [] code = "1b" -> <<"1", " ", "b">>
      [] code = "_1c" -> <<" ", "1", " ", "c">>
      [] OTHER -> <<"2", " ">> \o LongName

FieldName(code) ==
    CASE code = "a" -> <<"a">>
      [] code = "1b" -> <<"b">>
      [] code = "_1c" -> <<"c">>
      [] OTHER -> LongName

\* the line " #f1 f2 ... fn": after the marker the first field fills what is
\* left of the first `first` characters, the others are HdrWidth wide, with
\* sep blanks between two fields; the last field is not padded
HeaderLine(codes, first, sep) ==
    <<" ", "#">>
    \o Flatten([i \in 1..Len(codes) |->
          IF i = Len(codes) THEN FieldText(codes[i])
          ELSE Pad(FieldText(codes[i]), IF i = 1 THEN first - 1 ELSE HdrWidth)
               \o [j \in 1..sep |-> " "]])

IsHeaderFile(fn) == Len(fn) >= 2 /\ fn[1] \in {"hdr26", "hdr25"}

\* hdr26: fields at 0, 26, 52, ... with the marker in the first;
\* hdr25: the marker at 0 and fields at 1, 26, 51, ...
HeaderFileLines(fn) ==
    IF fn[1] = "hdr26"
    THEN <<HeaderLine(Tail(fn), HdrWidth, 1)>>
    ELSE <<HeaderLine(Tail(fn), HdrWidth + 1, 0)>>

\* the lines of the file named fn
FileLines(fn) ==
    IF IsHeaderFile(fn) THEN HeaderFileLines(fn)
    ELSE [i \in 1..Len(fn) |-> RenderLine(fn[i], i)]

HeaderFiles ==
    {<<layout>> \o body \o <<last>> :
        layout \in {"hdr26", "hdr25"},
        body \in SeqsUpTo({"a", "1b", "_1c"}, MaxFields - 1),
        last \in {"a", "1b", "_1c", "long"}}

(***************************************************************************)
(* Inputs of the profile writer and of calculate_shock.                    *)
(***************************************************************************)
\* the radial grids of up to MaxZones zones
Radii == {[i \in 1..n |-> 7 * i] : n \in 0..MaxZones}

VarNames == {<<"a">>, <<"b">>}

\* the values of a variable: n of them, told apart by the variable
ValuesOf(name, n) == [i \in 1..n |-> (IF name = <<"a">> THEN 20 ELSE 40) + i]

\* ordered mappings of up to MaxVars distinct names to sequences of n
\* values, and those whose last sequence is one value short
Mappings(n) ==
    LET orders == {ns \in SeqsUpTo(VarNames, MaxVars) :
                      \A i, j \in 1..Len(ns) : i # j => ns[i] # ns[j]}
    IN {[v \in 1..Len(ns) |->
            [name |-> ns[v],
             vals |-> ValuesOf(ns[v], IF v = Len(ns) /\ short THEN n - 1 ELSE n)]] :
          ns \in orders, short \in {k \in {FALSE, TRUE} : ~k \/ n > 0}}

Comments == {<<>>, <<"c">>, <<"c", "\n", "d">>}

ProfileIndexes ==
    {StrIndex(<<c>>) : c \in {"r", "a", "b"}} \cup {IntIndex(i) : i \in 0..1}

Times == {[i \in 1..n |-> i - 1] : n \in 0..MaxSeries}

RadiusSeries == SeqsUpTo({5, 7}, MaxSeries)

(***************************************************************************)
(* State: one dat object, one model object, the profile file on disk, the  *)
(* locals of a read_file call that is followed line by line, and the       *)
(* outcome of the last call.                                               *)
(***************************************************************************)
VARIABLES dat_columns, dat_runs, dat_loaded, nreads,
          model_comment, model_var_names, model_data, model_loaded,
          disk, wrote, scan, ret

dat_vars == <<dat_columns, dat_runs, dat_loaded, nreads>>

model_vars == <<model_comment, model_var_names, model_data, model_loaded>>

disk_vars == <<disk, wrote>>

vars == <<dat_vars, model_vars, disk_vars, scan, ret>>

NoDisk == <<"missing">>

\* The locals of read_file: pc is "idle" outside a call, "loop" at the head of
\* the for loop of line 138 and "done" after the call; n is the number of
\* lines the loop has taken; calls lists the (skip_header, max_rows) of the
\* genfromtxt calls made so far.
NoScan ==
    [pc |-> "idle", file |-> <<>>, n |-> 0, skip |-> 0, next_run |-> 0,
     calls |-> <<>>]

\* lines 19-22 and 190-193: dat() and model() without a file name; no
\* profile has been written
Init ==
    /\ dat_columns = <<>>
    /\ dat_runs = <<>>
    /\ dat_loaded = FALSE
    /\ nreads = 0
    /\ model_comment = <<>>
    /\ model_var_names = <<>>
    /\ model_data = <<>>
    /\ model_loaded = FALSE
    /\ disk = NoDisk
    /\ wrote = NoneVal
    /\ scan = NoScan
    /\ ret = [op |-> "init", arg |-> NoneVal, exc |-> "none", val |-> NoneVal]

Outcome(op, arg, o) == [op |-> op, arg |-> arg, exc |-> o.exc, val |-> o.val]

\* lines 111-171: dat.read_file(fn); open() raises when the file is missing
DatReadFile(fn) ==
    \E r \in {IF FileExists(fn)
              THEN ReadDat(dat_columns, dat_runs, dat_loaded, FileLines(fn))
              ELSE [columns |-> dat_columns, runs |-> dat_runs,
                    loaded |-> dat_loaded, exc |-> "FileNotFoundError"]} :
       /\ dat_columns' = r.columns
       /\ dat_runs' = r.runs
       /\ dat_loaded' = r.loaded
       /\ nreads' = nreads + 1
       /\ ret' = Outcome("dat.read_file", fn, Raise(r.exc))
       /\ UNCHANGED <<model_vars, disk_vars, scan>>

DatGet(index) ==
    /\ ret' = Outcome("dat.get", index, DatGetOutcome(dat_runs, dat_loaded, index))
    /\ UNCHANGED <<dat_vars, model_vars, disk_vars, scan>>

\* lines 33-34: dat.__getitem__
DatGetItem(index) ==
    /\ ret' = Outcome("dat.__getitem__", index,
                      DatGetOutcome(dat_runs, dat_loaded, index))
    /\ UNCHANGED <<dat_vars, model_vars, disk_vars, scan>>

DatGetRun(run) ==
    /\ ret' = Outcome("dat.get_run", run, DatGetRunOutcome(dat_runs, dat_loaded, run))
    /\ UNCHANGED <<dat_vars, model_vars, disk_vars, scan>>

DatColumnNames ==
    /\ ret' = Outcome("dat.column_names", NoneVal,
                      DatColumnNamesOutcome(dat_runs, dat_loaded))
    /\ UNCHANGED <<dat_vars, model_vars, disk_vars, scan>>

DatRead == nreads < MaxReads /\ \E fn \in ShortFiles : DatReadFile(fn)

DatQuery ==
    \/ \E index \in Indexes : DatGet(index)
    \/ \E index \in Indexes : DatGetItem(index)
    \/ \E run \in -1..2 : DatGetRun(run)
    \/ DatColumnNames

Next == DatRead \/ DatQuery

Spec == Init /\ [][Next]_vars

\* One read of a longer file by a fresh object.
ScanRead == nreads = 0 /\ \E fn \in ScanFiles : DatReadFile(fn)

ScanQuery == \E index \in ColumnIndexes : DatGet(index)

NextScan == ScanRead \/ ScanQuery

SpecScan == Init /\ [][NextScan]_vars

\* lines 121-136 of a read_file call followed line by line: the file is
\* opened, the columns are parsed from its first line, skip and next_run
\* start at 0
ScanOpen(fn) ==
    /\ scan.pc = "idle"
    /\ FileExists(fn)
    /\ \E lines \in {FileLines(fn)} :
          dat_columns' = ParseHeader(IF lines = <<>> THEN <<>> ELSE lines[1])
    /\ scan' = [NoScan EXCEPT !.pc = "loop", !.file = fn]
    /\ nreads' = nreads + 1
    /\ UNCHANGED <<dat_runs, dat_loaded, model_vars, disk_vars, ret>>

\* the locals skip, next_run and the runs of the object, as ScanStep takes them
ScanLocals ==
    [skip |-> scan.skip, next_run |-> scan.next_run, runs |-> dat_runs,
     exc |-> "none"]

\* lines 138-159: one iteration of the for loop, on line n (from 0); an
\* exception of genfromtxt leaves read_file
ScanLine ==
    /\ scan.pc = "loop"
    /\ scan.n < Len(scan.file)
    /\ \E lines \in {FileLines(scan.file)} :
       \E st \in {ScanStep(ScanLocals, lines, dat_columns, lines[scan.n + 1])} :
          /\ dat_runs' = st.runs
          /\ scan' = [scan EXCEPT
                !.pc = IF st.exc = "none" THEN "loop" ELSE "done",
                !.n = @ + 1,
                !.skip = st.skip,
                !.next_run = st.next_run,
                !.calls = IF st.exc # "none" \/ Len(st.runs) > Len(dat_runs)
                          THEN Append(@, <<scan.skip, scan.next_run>>) ELSE @]
          /\ ret' = IF st.exc = "none" THEN ret
                    ELSE Outcome("dat.read_file", scan.file, Raise(st.exc))
    /\ UNCHANGED <<dat_columns, dat_loaded, nreads, model_vars, disk_vars>>

\* lines 161-171: after the last line the last run is parsed and the object
\* is loaded
ScanClose ==
    /\ scan.pc = "loop"
    /\ scan.n = Len(scan.file)
    /\ \E st \in {ParseLastRun(ScanLocals, FileLines(scan.file), dat_columns)} :
          /\ dat_runs' = st.runs
          /\ dat_loaded' = IF st.exc = "none" THEN TRUE ELSE dat_loaded
          /\ ret' = Outcome("dat.read_file", scan.file, Raise(st.exc))
    /\ scan' = [scan EXCEPT !.pc = "done",
                            !.calls = Append(@, <<scan.skip, NoMaxRows>>)]
    /\ UNCHANGED <<dat_columns, nreads, model_vars, disk_vars>>

LoopOpen == nreads = 0 /\ \E fn \in ScanFiles : ScanOpen(fn)

NextLoop == LoopOpen \/ ScanLine \/ ScanClose

SpecLoop == Init /\ [][NextLoop]_vars

\* One read of a file that is a single header line.
HdrRead == nreads = 0 /\ \E fn \in HeaderFiles : DatReadFile(fn)

NextHdr == HdrRead

SpecHdr == Init /\ [][NextHdr]_vars

\* lines 283-309: write_flash_profile(fn, r, data, comment) on the one
\* profile path; the file keeps what was printed before an exception
WriteFlashProfile(r, data, comment) ==
    \E w \in {WriteProfile(r, data, comment)} :
       /\ disk' = w.text
       /\ wrote' = [r |-> r, data |-> data, comment |-> comment]
       /\ ret' = Outcome("write_flash_profile", NoneVal, Raise(w.exc))
       /\ UNCHANGED <<dat_vars, model_vars, scan>>

\* lines 245-280: model.read_file on the profile path
ModelReadFile ==
    \E m \in {IF disk # NoDisk
              THEN ReadModel(model_comment, model_var_names, model_data,
                             model_loaded, TextLines(disk))
              ELSE [comment |-> model_comment, var_names |-> model_var_names,
                    data |-> model_data, loaded |-> model_loaded,
                    exc |-> "FileNotFoundError"]} :
       /\ model_comment' = m.comment
       /\ model_var_names' = m.var_names
       /\ model_data' = m.data
       /\ model_loaded' = m.loaded
       /\ ret' = Outcome("model.read_file", NoneVal, Raise(m.exc))
       /\ UNCHANGED <<dat_vars, disk_vars, scan>>

\* lines 214-242: model.get(index)
ModelGet(index) ==
    /\ ret' = Outcome("model.get", index,
                      ModelGetOutcome(model_data, model_loaded, index))
    /\ UNCHANGED <<dat_vars, model_vars, disk_vars, scan>>

\* lines 196-197: model.__getitem__
ModelGetItem(index) ==
    /\ ret' = Outcome("model.__getitem__", index,
                      ModelGetOutcome(model_data, model_loaded, index))
    /\ UNCHANGED <<dat_vars, model_vars, disk_vars, scan>>

\* lines 204-207: model.var_names()
ModelVarNames ==
    /\ ret' = Outcome("model.var_names", NoneVal,
                      ModelVarNamesOutcome(model_data, model_loaded))
    /\ UNCHANGED <<dat_vars, model_vars, disk_vars, scan>>

ProfileWrite ==
    \E r \in Radii : \E data \in Mappings(Len(r)) : \E comment \in Comments :
        WriteFlashProfile(r, data, comment)

ProfileQuery ==
    \/ \E index \in ProfileIndexes : ModelGet(index)
    \/ \E index \in ProfileIndexes : ModelGetItem(index)
    \/ ModelVarNames

NextModel == ProfileWrite \/ ModelReadFile \/ ProfileQuery

SpecModel == Init /\ [][NextModel]_vars

\* flashy/flash.py lines 178-211
ShockFlashy(time, shock_radius) ==
    /\ ret' = Outcome("flashy.calculate_shock", <<time, shock_radius>>,
                      CalculateShockFlashy(time, shock_radius))
    /\ UNCHANGED <<dat_vars, model_vars, disk_vars, scan>>

\* flash.py lines 483-516
ShockFlash(time, shock_rad) ==
    /\ ret' = Outcome("flash.calculate_shock", <<time, shock_rad>>,
                      CalculateShockFlash(time, shock_rad))
    /\ UNCHANGED <<dat_vars, model_vars, disk_vars, scan>>

NextShock ==
    \/ \E time \in Times : \E rad \in RadiusSeries : ShockFlashy(time, rad)
    \/ \E time \in Times : \E rad \in RadiusSeries : ShockFlash(time, rad)

SpecShock == Init /\ [][NextShock]_vars

(***************************************************************************)
(* What a file holds, read off its shape.                                  *)
(***************************************************************************)
IsHeaderSym(sym) == sym \in {"H", "G"}

\* the line numbers of the header lines, in file order
HeaderPositions(fn) ==
    SelectSeq([i \in 1..Len(fn) |-> i], LAMBDA i : IsHeaderSym(fn[i]))

\* the rows of the data lines between the j-th header and the next (or EOF)
BlockOf(fn, j) ==
    LET hp == HeaderPositions(fn)
        lo == hp[j]
        hi == IF j < Len(hp) THEN hp[j + 1] ELSE Len(fn) + 1
    IN [m \in 1..(hi - lo - 1) |-> RowValues(lo + m)]

\* k >= 1 blocks, each one header line followed by at least one data line
IsBlockFile(fn) ==
    /\ fn # <<>> /\ fn # NoFile
    /\ fn[1] = "H" /\ fn[Len(fn)] = "D"
    /\ \A i \in 1..Len(fn) : fn[i] \in {"H", "D"}
    /\ \A i \in 1..(Len(fn) - 1) : ~(fn[i] = "H" /\ fn[i + 1] = "H")

RowCounts(runs) == [j \in 1..Len(runs) |-> Len(runs[j].rows)]

ReadOk == ret.op = "dat.read_file" /\ ret.exc = "none"

\* C1: read_file on a fresh object, given k >= 1 blocks of one header line
\* and n_i >= 1 data lines, produces exactly k Runs in file order, the i-th
\* holding exactly the data lines between the i-th header and the next
\* header (or EOF).
C1_BlocksBecomeRuns ==
    (ret.op = "dat.read_file" /\ IsBlockFile(ret.arg)) =>
        /\ ret.exc = "none"
        /\ dat_loaded
        /\ Len(dat_runs) = Len(HeaderPositions(ret.arg))
        /\ \A j \in 1..Len(dat_runs) : dat_runs[j].rows = BlockOf(ret.arg, j)

C1_Witness ==
    /\ ReadOk
    /\ ret.arg = <<"H", "D", "D", "D", "H", "D", "D">>
    /\ RowCounts(dat_runs) = <<3, 2>>

\* a header exists and only empty lines, if any, follow the last one
EndsWithHeader(fn) ==
    /\ fn # NoFile
    /\ \E h \in 1..Len(fn) :
          IsHeaderSym(fn[h]) /\ \A i \in (h + 1)..Len(fn) : fn[i] = "B"

\* C9: a header line followed by no data line before EOF yields a zero-row
\* Run that is kept as the last Run of the dataset: header, 3 data lines,
\* header gives Runs of 3 and 0 rows, a lone header gives one Run of 0 rows.
C9_TrailingHeaderGivesEmptyRun ==
    (ret.op = "dat.read_file" /\ EndsWithHeader(ret.arg)) =>
        /\ ret.exc = "none"
        /\ dat_runs # <<>>
        /\ dat_runs[Len(dat_runs)].rows = <<>>
        /\ (ret.arg = <<"H", "D", "D", "D", "H">> => RowCounts(dat_runs) = <<3, 0>>)
        /\ (ret.arg = <<"H">> => RowCounts(dat_runs) = <<0>>)

C9_Witness ==
    /\ ReadOk
    /\ ret.arg = <<"H", "D", "D", "D", "H">>
    /\ RowCounts(dat_runs) = <<3, 0>>

\* the header lines that directly follow a line that is no header
HeadersAfterData(fn) ==
    {i \in 2..Len(fn) : IsHeaderSym(fn[i]) /\ ~IsHeaderSym(fn[i - 1])}

HasRepeatedHeader(fn) ==
    \E i \in 1..(Len(fn) - 1) : IsHeaderSym(fn[i]) /\ IsHeaderSym(fn[i + 1])

\* C10 as claimed: a header line immediately followed by another header line
\* produces an empty Run, so that the number of Runs equals the number of
\* header-started segments of the file.
C10_RunPerHeader ==
    (ReadOk /\ HasRepeatedHeader(ret.arg) /\ IsHeaderSym(ret.arg[1])) =>
        Len(dat_runs) = Len(HeaderPositions(ret.arg))

\* C10 as amended: a header line immediately followed by another header line
\* produces no Run (the scan only moves skip past it); a successful read
\* yields one Run per header line that directly follows a line that is no
\* header, plus the last Run.
C10_RunPerHeaderAfterData ==
    ReadOk => Len(dat_runs) = 1 + Cardinality(HeadersAfterData(ret.arg))

C10_Witness ==
    /\ ReadOk
    /\ ret.arg = <<"H", "D", "H", "H", "D">>
    /\ RowCounts(dat_runs) = <<1, 1>>

(***************************************************************************)
(* Claims on the queries of a dat object.                                  *)
(***************************************************************************)
\* a column of the dataset, by position or by name
IsColumnIndex(index) ==
    \/ index.t = "int" /\ index.i >= 0 /\ index.i < Len(dat_columns)
    \/ index.t = "str" /\ InSeq(index.s, dat_columns)

ColumnName(index) ==
    IF index.t = "int" THEN dat_columns[index.i + 1] ELSE index.s

\* get_run(i)[column] for i = from..num_runs-1, concatenated; <<"raises">>
\* marks a get_run(i)[column] that raises
RECURSIVE RunsColumn(_, _)
RunsColumn(name, from) ==
    IF from >= Len(dat_runs) THEN <<>>
    ELSE Bind(DatGetRunOutcome(dat_runs, dat_loaded, from), LAMBDA r :
         Bind(IF r.exc = "none" THEN Field(r.val, name) ELSE r, LAMBDA f :
             IF f.exc # "none" THEN <<"raises">>
             ELSE f.val \o RunsColumn(name, from + 1)))

RECURSIVE SumSeq(_)
SumSeq(s) == IF s = <<>> THEN 0 ELSE Head(s) + SumSeq(Tail(s))

\* C2: on a loaded object, get(column) is the concatenation in run order of
\* get_run(i)[column] over every run, and as long as the rows of all runs.
C2_GetIsConcatenation ==
    (ret.op = "dat.get" /\ dat_loaded /\ IsColumnIndex(ret.arg)) =>
        /\ ret.exc = "none"
        /\ ret.val = RunsColumn(ColumnName(ret.arg), 0)
        /\ Len(ret.val) = SumSeq(RowCounts(dat_runs))

QueryOps == {"dat.get", "dat.__getitem__", "dat.get_run", "dat.column_names"}

\* C3: a query on an object that is not loaded fails with the not-loaded
\* RuntimeError and nothing else; on a loaded object no query raises it.
C3_QueriesNeedLoad ==
    ret.op \in QueryOps =>
        IF dat_loaded THEN ret.exc # "RuntimeError" ELSE ret.exc = "RuntimeError"

IsValidIndexShape(index) ==
    \/ index.t \in {"int", "str"}
    \/ /\ index.t = "tuple"
       /\ Len(index.items) = 2
       /\ index.items[2].t \in {"int", "str"}

\* C4: on a loaded object get(index) raises IndexError for every index that
\* is no int, no str and no (run, column) pair with an int or str column.
C4_InvalidIndexRaises ==
    (ret.op \in {"dat.get", "dat.__getitem__"} /\ dat_loaded
       /\ ~IsValidIndexShape(ret.arg)) => ret.exc = "IndexError"

\* C5: a read_file call that fails leaves the object unloaded, whether or
\* not it was loaded before the call.
C5_FailedReadUnloads ==
    (ret.op = "dat.read_file" /\ ret.exc # "none") => ~dat_loaded

(***************************************************************************)
(* Claim on the header line.                                               *)
(***************************************************************************)
ReadHeaderFile(layout) ==
    ret.op = "dat.read_file" /\ IsHeaderFile(ret.arg) /\ ret.arg[1] = layout

Xs(n) == [i \in 1..n |-> "x"]

\* the first field loses its digits only when they touch the marker
FirstFieldName(code) ==
    IF code = "_1c" THEN <<"1", " ", "c">> ELSE FieldName(code)

\* what the fields at 1, 26, 52, 78, ... of a header of the hdr26 layout
\* give: the remainder is always appended, and a field is cut at 25
ExpectedColumns(codes) ==
    LET n == Len(codes)
    IN IF n = 1
       THEN IF codes[1] = "long" THEN <<Xs(22), Xs(2)>>
            ELSE <<FirstFieldName(codes[1]), <<>> >>
       ELSE <<FirstFieldName(codes[1])>>
            \o [i \in 1..(n - 2) |-> FieldName(codes[i + 1])]
            \o (IF codes[n] = "long" THEN <<Xs(23), Xs(1)>>
                ELSE <<FieldName(codes[n])>>)

WroteProfile ==
    /\ disk # NoDisk
    /\ \A v \in 1..Len(wrote.data) : Len(wrote.data[v].vals) = Len(wrote.r)

WrittenRow(i) ==
    <<wrote.r[i]>> \o [v \in 1..Len(wrote.data) |-> wrote.data[v].vals[i]]

\* the lines of the file that hold no row
NonDataLines ==
    Len(TextLines(disk)) - Len(wrote.r)

IsProfileColumn(index) ==
    \/ index.t = "str" /\ InSeq(index.s, model_data.names)
    \/ index.t = "int" /\ index.i < Len(model_data.names)

ProfileColumn(index) ==
    LET k == IF index.t = "int" THEN index.i + 1
             ELSE CHOOSE j \in 1..Len(model_data.names) :
                      model_data.names[j] = index.s
    IN [i \in 1..Len(model_data.rows) |-> model_data.rows[i][k]]

\* C7: the file written by write_flash_profile(r, data, comment) from N
\* sequences as long as r and read back by model.read_file has the columns
\* 'r' and the N names in mapping order and len(r) rows, row i holding r[i]
\* and the i-th value of each variable; the reader skips 1 + 1 + N lines,
\* the lines the writer emitted before the rows; and model.get of a column
\* returns the values of that column.
C7_ProfileRoundTrip ==
    /\ (ret.op = "model.read_file" /\ WroteProfile) =>
          /\ ret.exc = "none"
          /\ model_loaded
          /\ model_var_names
               = << <<"r">> >> \o [v \in 1..Len(wrote.data) |-> wrote.data[v].name]
          /\ Len(model_data.rows) = Len(wrote.r)
          /\ \A i \in 1..Len(wrote.r) : model_data.rows[i] = WrittenRow(i)
          /\ NonDataLines = 1 + 1 + Len(wrote.data)
    /\ (ret.op \in {"model.get", "model.__getitem__"} /\ model_loaded
          /\ model_data.rows # <<>> /\ IsProfileColumn(ret.arg)) =>
          /\ ret.exc = "none"
          /\ ret.val = ProfileColumn(ret.arg)

(***************************************************************************)
(* Claim on calculate_shock.                                               *)
(***************************************************************************)
\* the indexes that end a maximal group of equal consecutive values
GroupEnds(s) ==
    SelectSeq([i \in 1..Len(s) |-> i],
              LAMBDA i : i = Len(s) \/ s[i + 1] # s[i])

ExpectedTimes(time, s) ==
    <<0>> \o [j \in 1..Len(GroupEnds(s)) |-> time[GroupEnds(s)[j]]]

ExpectedRadii(s) ==
    <<0>> \o [j \in 1..Len(GroupEnds(s)) |-> s[GroupEnds(s)[j]]]

ShockOps == {"flashy.calculate_shock", "flash.calculate_shock"}

\* C8: for input sequences of equal length calculate_shock interpolates
\* through the point (0, 0) followed by one point per maximal group of equal
\* consecutive shock_radius values, (time at the last index of the group,
\* the value of the group), and returns three sequences of length 1000.
C8_ShockDeduplicates ==
    (ret.op \in ShockOps /\ Len(ret.arg[1]) = Len(ret.arg[2])) =>
        /\ ret.exc = "none"
        /\ ret.val.smooth_t = ExpectedTimes(ret.arg[1], ret.arg[2])
        /\ ret.val.smooth_r = ExpectedRadii(ret.arg[2])
        /\ ret.val.n_times = 1000
        /\ ret.val.n_rad = 1000
        /\ ret.val.n_vel = 1000

(***************************************************************************)
(* Claim on the loop of the scan.                                          *)
(***************************************************************************)
\* the indexes (from 0) of the header lines among the first n lines
HeadersBefore(fn, n) == {i \in 0..(n - 1) : IsHeaderSym(fn[i + 1])}

\* the index of the first line after the most recent header, 0 if none
AfterLastHeader(fn, n) ==
    IF HeadersBefore(fn, n) = {} THEN 0
    ELSE 1 + CHOOSE i \in HeadersBefore(fn, n) : \A j \in HeadersBefore(fn, n) : j <= i

\* the line indexes (from 0) of the window of a genfromtxt call
Window(fn, call) ==
    IF call[2] = NoMaxRows THEN call[1]..(Len(fn) - 1)
    ELSE call[1]..(call[1] + call[2] - 1)

DataIndexes(fn) == {i \in 0..(Len(fn) - 1) : ~IsHeaderSym(fn[i + 1])}

\* the rows of the data lines of a window, in file order
WindowRows(fn, call) ==
    LET lo == call[1]
        hi == IF call[2] = NoMaxRows THEN Len(fn) ELSE call[1] + call[2]
    IN [m \in 1..(hi - lo) |-> RowValues(lo + m)]

ScanFinished == scan.pc = "done" /\ ret.exc = "none"

\* C11: at the head of the loop of the scan, skip + next_run is the number
\* of lines already scanned and skip is the index of the first line after
\* the most recent header (0 if none); the window [skip, skip + next_run) of
\* every genfromtxt call of the loop and the window [skip, EOF) of the last
\* call hold no header line, the windows are pairwise disjoint, and after
\* the read every line that is no header lies in exactly one window; in a
\* file of header and data lines each Run holds the rows of its window.
C11_ScanLoopInvariant ==
    /\ scan.pc = "loop" =>
          /\ scan.skip + scan.next_run = scan.n
          /\ scan.skip = AfterLastHeader(scan.file, scan.n)
    /\ \A c \in 1..Len(scan.calls) :
          Window(scan.file, scan.calls[c]) \subseteq DataIndexes(scan.file)
    /\ \A c, d \in 1..Len(scan.calls) :
          c # d => Window(scan.file, scan.calls[c])
                     \cap Window(scan.file, scan.calls[d]) = {}
    /\ ScanFinished =>
          /\ \A i \in DataIndexes(scan.file) :
                \E c \in 1..Len(scan.calls) : i \in Window(scan.file, scan.calls[c])
          /\ Len(dat_runs) = Len(scan.calls)
          /\ (\A i \in 1..Len(scan.file) : scan.file[i] \in {"H", "D"}) =>
                \A c \in 1..Len(scan.calls) :
                   dat_runs[c].rows = WindowRows(scan.file, scan.calls[c])

C11_Witness ==
    /\ ScanFinished
    /\ scan.file = <<"D", "D", "H", "H", "D", "H">>
    /\ scan.calls = << <<0, 2>>, <<4, 1>>, <<6, NoMaxRows>> >>
    /\ RowCounts(dat_runs) = <<2, 1, 0>>

(***************************************************************************)
(* Claim on repeated reads.                                                *)
(***************************************************************************)
\* the Runs a new object holds after reading the file fn
RunsOfFile(fn) == ReadDat(<<>>, <<>>, FALSE, FileLines(fn)).runs

\* every named column of the object is a field of the run
HasColumns(run) ==
    \A k \in 1..Len(dat_columns) :
        dat_columns[k] # <<>> => InSeq(dat_columns[k], run.names)

\* C12: after a successful read_file on an object, whatever it read before,
\* the object holds exactly the Runs of the file just read, as many as that
\* file has, and every Run with rows has the columns of the current Column
\* Name list.
C12_RunsOfLastFile ==
    ReadOk =>
        /\ Len(dat_runs) = Len(RunsOfFile(ret.arg))
        /\ dat_runs = RunsOfFile(ret.arg)
        /\ \A j \in 1..Len(dat_runs) :
              dat_runs[j].rows # <<>> => HasColumns(dat_runs[j])

====
